---- MODULE Spec2Model ----
(***************************************************************************)
(* Reminder scheduling and notification delivery of the alerting platform: *)
(* ReminderScheduler (one timer per `${alertId}_${userId}`), the            *)
(* NotificationManager with its pluggable channels and delivery log, and   *)
(* the UserPreferenceManager.                                               *)
(*                                                                         *)
(* Time is counted in minutes, so reminderFrequencyMinutes * 60 * 1000 ms  *)
(* is reminderFrequencyMinutes units of the clock `now`.  A day is DayLen  *)
(* minutes long.  Observer callbacks return normally: "o1" and "o3" behave *)
(* as the repository's observer (EnhancedMockApiService.onReminderEvent),  *)
(* which records the event; "o2" unsubscribes itself when notified.         *)
(***************************************************************************)
EXTENDS Integers, Sequences, FiniteSets, Bags, TLC

VARIABLES
  now,          \* the wall clock (Date.now()), in minutes
  channels,     \* NotificationManager.channels: channel type -> channel object
  deliveryLogs, \* NotificationManager.deliveryLogs
  preferences,  \* UserPreferenceManager.preferences: key -> preference
  reminders,    \* ReminderScheduler.reminders: key -> timeout handle
  timers,       \* the runtime's pending setTimeout timers (armed, not fired, not cleared)
  tasks,        \* the bag of deliverNotification calls in flight (at an await)
  observers,    \* ReminderScheduler.observers
  alerts,       \* AnalyticsEngine.alerts: the alert catalog handed to updateData
  reminderLogs, \* observer "o1"'s record of the events: key -> type of the last one
  emitted,      \* the events the last step handed to the observers, in order
  last          \* the last operation: its arguments and what it did

vars == <<now, channels, deliveryLogs, preferences, reminders, timers, tasks,
          observers, alerts, reminderLogs, emitted, last>>

----------------------------------------------------------------------------
(* Bounds of the model *)

MaxTime == 5
MaxTasks == 2
MaxLog == 2
MaxObservers == 2
MaxDelivered == 3
DayLen == 3

(* null / undefined of a timestamp field *)
Null == -1

AlertIds == {"a1", "a2"}
UserIds == {"u1"}
ObserverIds == {"o1", "o2", "o3"}
ChannelTypes == {"inapp", "email", "sms"}

(* The Alert objects callers pass in (types.ts: Alert).  "a1" is created  *)
(* at 0 and repeats every 2 minutes on the in-app channel; "a2" is created *)
(* at 1 and repeats every 3 minutes on email and in-app.  Both are valid   *)
(* from 1 to 4.  "a3" is like "a2" but expires at 2, before its first grid *)
(* instant after the start.                                                 *)
Alert(id, archived, reminderEnabled) ==
  [id |-> id, archived |-> archived, reminderEnabled |-> reminderEnabled,
   reminderFrequencyMinutes |-> IF id = "a1" THEN 2 ELSE 3,
   startTime |-> 1, expiryTime |-> IF id = "a3" THEN 2 ELSE 4,
   createdAt |-> IF id = "a1" THEN 0 ELSE 1,
   deliveryTypes |-> IF id = "a1" THEN <<"inapp">> ELSE <<"email", "inapp">>,
   severity |-> IF id = "a1" THEN "Warning" ELSE "Critical"]

AlertInputs ==
  {Alert(i, FALSE, TRUE) : i \in AlertIds} \cup
  {Alert(i, TRUE, TRUE) : i \in AlertIds} \cup
  {Alert(i, FALSE, FALSE) : i \in AlertIds}

NoAlert == [id |-> "none"]
NoPref == [alertId |-> "none"]

(* reminderId / preference key: `${alert.id}_${user.id}` *)
Key(alertId, userId) == alertId \o "_" \o userId

Keys == {Key(a, u) : a \in AlertIds, u \in UserIds}

EmptyMap == [k \in {} |-> 0]

MapSet(m, k, v) == [x \in DOMAIN m \cup {k} |-> IF x = k THEN v ELSE m[x]]

MapDelete(m, k) == [x \in DOMAIN m \ {k} |-> m[x]]

FreshId(used) == CHOOSE i \in 1..(Cardinality(used) + 1) : i \notin used

----------------------------------------------------------------------------
(* Channels (BaseChannel.ts and its three implementations).  A channel     *)
(* object answers isAvailable() with "yes", "no" or by throwing, and its   *)
(* deliver() promise resolves to a success ("ok"), resolves to a failure   *)
(* ("fail") or rejects ("throw").                                           *)

Channel(type, available, deliver) ==
  [type |-> type, available |-> available, deliver |-> deliver]

InAppNotificationChannel == Channel("inapp", "yes", "ok")

EmailNotificationChannel == Channel("email", "no", "fail")

SMSNotificationChannel == Channel("sms", "no", "fail")

(* Channel objects a caller may register besides the built-in ones *)
ChannelInputs ==
  { InAppNotificationChannel, EmailNotificationChannel,
    Channel("email", "yes", "ok"), Channel("email", "yes", "fail"),
    Channel("email", "yes", "throw"), Channel("email", "throw", "ok") }

NoChannel == [type |-> "none", available |-> "none", deliver |-> "none"]

----------------------------------------------------------------------------
(* NotificationManager.deliverNotification *)

Result(channelType, success, error) ==
  [channel |-> channelType, success |-> success, error |-> error]

LogRecord(t, delivered, error) ==
  [alertId |-> t.alert.id, userId |-> t.user, channel |-> t.types[t.idx],
   delivered |-> delivered, error |-> error]

PushFailure(t, ch, error) ==
  [t EXCEPT !.results = Append(@, Result(t.types[t.idx], FALSE, error)),
            !.overall = FALSE,
            !.seen = Append(@, ch),
            !.idx = @ + 1]

(* The loop body without the isAvailable() test *)
AttemptSkipsAvailability(t) ==
  LET channelType == t.types[t.idx] IN
  IF channelType \notin DOMAIN channels
  THEN PushFailure(t, NoChannel, "Channel not found")
  ELSE [t EXCEPT !.pc = "await", !.pending = channels[channelType].deliver,
                 !.seen = Append(@, channels[channelType])]

(* One iteration of the for loop up to the await: pc stays "run" when the   *)
(* loop goes on synchronously.                                              *)
Attempt(t) ==
  LET channelType == t.types[t.idx] IN
  IF channelType \notin DOMAIN channels
  THEN PushFailure(t, NoChannel, "Channel not found")
  ELSE LET channel == channels[channelType] IN
       CASE channel.available = "throw" ->
              [t EXCEPT !.pc = "done", !.outcome = "thrown",
                        !.error = "isAvailable failed",
                        !.seen = Append(@, channel)]
         [] channel.available = "no" ->
              PushFailure(t, channel, "Channel not available")
         [] OTHER ->
              [t EXCEPT !.pc = "await", !.pending = channel.deliver,
                        !.seen = Append(@, channel)]

RECURSIVE RunLoop(_)
RunLoop(t) ==
  IF t.pc # "run" THEN t
  ELSE IF t.idx > Len(t.types)
       THEN [t EXCEPT !.pc = "done", !.outcome = "returned"]
       ELSE RunLoop(Attempt(t))

NewTask(caller, alert, user, channelTypes) ==
  [caller |-> caller, alert |-> alert, user |-> user,
   types |-> channelTypes, idx |-> 1, results |-> <<>>, overall |-> TRUE,
   pc |-> "run", pending |-> "none", outcome |-> "none", error |-> "",
   seen |-> <<>>, logged |-> 0]

(* The synchronous part of a deliverNotification call: up to its first await *)
DeliverStart(st, caller, alert, user, channelTypes) ==
  [st EXCEPT !.tasks = @ (+) SetToBag({RunLoop(NewTask(caller, alert, user, channelTypes))}),
             !.started = @ + 1]

(* The delivery-log record the try block pushes once deliver() has resolved *)
SettleRecord(t) ==
  CASE t.pending = "ok" -> <<LogRecord(t, TRUE, "")>>
    [] t.pending = "fail" -> <<LogRecord(t, FALSE, "Delivery failed")>>
    [] OTHER -> <<>>

(* deliveryLogs.unshift in place of deliveryLogs.push *)
PushLogFront(log, t) == SettleRecord(t) \o log

(* this.deliveryLogs.push(...) of the try block *)
PushLog(log, t) == log \o SettleRecord(t)

(* The try block without `overallSuccess = false` for a failed result *)
SettleKeepsOverall(t) ==
  LET channelType == t.types[t.idx] IN
  CASE t.pending = "ok" ->
         [t EXCEPT !.results = Append(@, Result(channelType, TRUE, "")),
                   !.logged = @ + Len(SettleRecord(t)), !.idx = @ + 1, !.pc = "run",
                   !.pending = "none"]
    [] t.pending = "fail" ->
         [t EXCEPT !.results = Append(@, Result(channelType, FALSE, "Delivery failed")),
                   !.logged = @ + Len(SettleRecord(t)), !.idx = @ + 1, !.pc = "run",
                   !.pending = "none"]
    [] OTHER ->
         [t EXCEPT !.results = Append(@, Result(channelType, FALSE, "Channel error")),
                   !.overall = FALSE,
                   !.idx = @ + 1, !.pc = "run", !.pending = "none"]

(* The await without the catch: a rejected deliver() rejects the call *)
SettleRethrows(t) ==
  LET channelType == t.types[t.idx] IN
  CASE t.pending = "ok" ->
         [t EXCEPT !.results = Append(@, Result(channelType, TRUE, "")),
                   !.logged = @ + Len(SettleRecord(t)), !.idx = @ + 1, !.pc = "run",
                   !.pending = "none"]
    [] t.pending = "fail" ->
         [t EXCEPT !.results = Append(@, Result(channelType, FALSE, "Delivery failed")),
                   !.overall = FALSE,
                   !.logged = @ + Len(SettleRecord(t)), !.idx = @ + 1, !.pc = "run",
                   !.pending = "none"]
    [] OTHER ->
         [t EXCEPT !.pc = "done", !.outcome = "thrown", !.error = "Channel error",
                   !.pending = "none"]

(* The awaited deliver() settles: the rest of the try block or the catch *)
Settle(t) ==
  LET channelType == t.types[t.idx] IN
  CASE t.pending = "ok" ->
         [t EXCEPT !.results = Append(@, Result(channelType, TRUE, "")),
                   !.logged = @ + Len(SettleRecord(t)), !.idx = @ + 1, !.pc = "run",
                   !.pending = "none"]
    [] t.pending = "fail" ->
         [t EXCEPT !.results = Append(@, Result(channelType, FALSE, "Delivery failed")),
                   !.overall = FALSE,
                   !.logged = @ + Len(SettleRecord(t)), !.idx = @ + 1, !.pc = "run",
                   !.pending = "none"]
    [] OTHER ->
         [t EXCEPT !.results = Append(@, Result(channelType, FALSE, "Channel error")),
                   !.overall = FALSE,
                   !.idx = @ + 1, !.pc = "run", !.pending = "none"]

----------------------------------------------------------------------------
(* ReminderScheduler *)

Event(type, alertId, userId, scheduledFor, success, error) ==
  [type |-> type, alertId |-> alertId, userId |-> userId,
   scheduledFor |-> scheduledFor, success |-> success, error |-> error,
   registered |-> <<>>, to |-> <<>>, after |-> <<>>]

IndexOf(seq, x) ==
  IF \E i \in 1..Len(seq) : seq[i] = x
  THEN CHOOSE i \in 1..Len(seq) : seq[i] = x /\ \A j \in 1..(i - 1) : seq[j] # x
  ELSE 0

Splice(seq, index) ==
  [i \in 1..(Len(seq) - 1) |-> IF i < index THEN seq[i] ELSE seq[i + 1]]

RemoveObserverOp(obs, observer) ==
  LET index == IndexOf(obs, observer) IN
  IF index > 0 THEN Splice(obs, index) ELSE obs

(* What an observer's onReminderEvent does to the observer list: "o1" and  *)
(* "o3" record the event and return (as EnhancedMockApiService does), "o2" *)
(* is a one-shot subscriber that calls removeObserver on itself.            *)
OnReminderEvent(observer, obs) ==
  IF observer = "o2" THEN RemoveObserverOp(obs, observer) ELSE obs

(* Array.prototype.forEach: the length is read once, index k is visited    *)
(* only while it is still present in the array                              *)
RECURSIVE ForEach(_, _, _, _)
ForEach(obs, k, len, invoked) ==
  IF k > len
  THEN [observers |-> obs, invoked |-> invoked]
  ELSE IF k > Len(obs)
       THEN ForEach(obs, k + 1, len, invoked)
       ELSE ForEach(OnReminderEvent(obs[k], obs), k + 1, len, Append(invoked, obs[k]))

(* notifyObservers that stops after the first callback *)
NotifyObserversFirstOnly(st, event) ==
  LET pass == ForEach(st.observers, 1, IF Len(st.observers) > 0 THEN 1 ELSE 0, <<>>) IN
  [st EXCEPT !.observers = pass.observers,
             !.emitted = Append(@, [event EXCEPT !.registered = st.observers,
                                                 !.to = pass.invoked,
                                                 !.after = pass.observers])]

NotifyObservers(st, event) ==
  LET pass == ForEach(st.observers, 1, Len(st.observers), <<>>) IN
  [st EXCEPT !.observers = pass.observers,
             !.emitted = Append(@, [event EXCEPT !.registered = st.observers,
                                                 !.to = pass.invoked,
                                                 !.after = pass.observers])]

(* clearReminder that forgets the handle without clearTimeout *)
ClearReminderForgets(st, reminderId) ==
  [st EXCEPT !.reminders = MapDelete(@, reminderId)]

ClearReminderOp(st, reminderId) ==
  IF reminderId \in DOMAIN st.reminders
  THEN [st EXCEPT !.timers = {t \in @ : t.id # st.reminders[reminderId]},
                  !.reminders = MapDelete(@, reminderId),
                  !.cleared = @ + Cardinality({t \in st.timers :
                                                 t.id = st.reminders[reminderId]})]
  ELSE st

(* shouldScheduleReminder without the snooze test *)
ShouldScheduleIgnoringSnooze(alert, preference) ==
  ~(alert.archived \/ now < alert.startTime \/ now > alert.expiryTime)
  /\ alert.reminderEnabled

ShouldScheduleReminder(alert, preference) ==
  IF alert.archived \/ now < alert.startTime \/ now > alert.expiryTime
  THEN FALSE
  ELSE IF ~alert.reminderEnabled
  THEN FALSE
  ELSE IF preference # NoPref /\ preference.snoozedUntil # Null
          /\ preference.snoozedUntil > now
  THEN FALSE
  ELSE TRUE

(* calculateNextReminderTime counting from the call instead of the grid *)
CalculateNextFromNow(alert, preference) ==
  IF preference = NoPref THEN now ELSE now + alert.reminderFrequencyMinutes

(* calculateNextReminderTime with Math.ceil in place of Math.floor + 1 *)
CalculateNextCeil(alert, preference) ==
  IF preference = NoPref
  THEN now
  ELSE alert.createdAt
       + (-((alert.createdAt - now) \div alert.reminderFrequencyMinutes))
         * alert.reminderFrequencyMinutes

CalculateNextReminderTime(alert, preference) ==
  LET frequencyMs == alert.reminderFrequencyMinutes
      baseTime == alert.createdAt
      timeSinceBase == now - baseTime
      intervalsPassed == timeSinceBase \div frequencyMs
  IN IF preference = NoPref
     THEN now
     ELSE baseTime + (intervalsPassed + 1) * frequencyMs

(* triggerReminder up to its await on the dispatcher *)
TriggerReminderStart(st, alert, user) ==
  DeliverStart(st, "trigger", alert, user, alert.deliveryTypes)

(* setTimeout without this.reminders.set(reminderId, timeout) *)
ArmTimerUnrecorded(st, alert, user, nextReminderTime) ==
  LET reminderId == Key(alert.id, user)
      id == FreshId({t.id : t \in st.timers} \cup
                    {st.reminders[k] : k \in DOMAIN st.reminders})
  IN [st EXCEPT !.timers = @ \cup {[id |-> id, key |-> reminderId, alert |-> alert,
                                    user |-> user, fireAt |-> nextReminderTime]},
                !.did = "armed", !.at = nextReminderTime]

ArmTimer(st, alert, user, nextReminderTime) ==
  LET reminderId == Key(alert.id, user)
      id == FreshId({t.id : t \in st.timers} \cup
                    {st.reminders[k] : k \in DOMAIN st.reminders})
  IN [st EXCEPT !.timers = @ \cup {[id |-> id, key |-> reminderId, alert |-> alert,
                                    user |-> user, fireAt |-> nextReminderTime]},
                !.reminders = MapSet(@, reminderId, id),
                !.did = "armed", !.at = nextReminderTime]

(* scheduleReminder that hands a due reminder to setTimeout(..., 0) instead *)
(* of calling triggerReminder itself                                        *)
ScheduleReminderDefers(st, alert, user, preference) ==
  LET reminderId == Key(alert.id, user)
      s1 == ClearReminderOp(st, reminderId)
  IN IF ~ShouldScheduleReminder(alert, preference)
     THEN [s1 EXCEPT !.did = "skipped"]
     ELSE LET nextReminderTime == CalculateNextReminderTime(alert, preference) IN
          NotifyObservers(
            ArmTimer(s1, alert, user, nextReminderTime),
            Event("scheduled", alert.id, user, nextReminderTime, FALSE, ""))

ScheduleReminderOp(st, alert, user, preference) ==
  LET reminderId == Key(alert.id, user)
      s1 == ClearReminderOp(st, reminderId)
  IN IF ~ShouldScheduleReminder(alert, preference)
     THEN [s1 EXCEPT !.did = "skipped"]
     ELSE LET nextReminderTime == CalculateNextReminderTime(alert, preference)
              delay == nextReminderTime - now
          IN IF delay <= 0
             THEN [TriggerReminderStart(s1, alert, user) EXCEPT
                     !.did = "fired", !.at = nextReminderTime]
             ELSE NotifyObservers(
                    ArmTimer(s1, alert, user, nextReminderTime),
                    Event("scheduled", alert.id, user, nextReminderTime, FALSE, ""))

(* triggerReminder without its catch: the rejection goes to its caller *)
TriggerReminderResumeNoCatch(st, t) ==
  IF t.outcome = "returned"
  THEN [ScheduleReminderOp(
          NotifyObservers(st, Event("triggered", t.alert.id, t.user, Null,
                                    t.overall, "")),
          t.alert, t.user, NoPref) EXCEPT !.promise = "fulfilled"]
  ELSE [st EXCEPT !.promise = "rejected"]

(* getActiveReminders: Array.from(this.reminders.keys()) *)
GetActiveReminders == DOMAIN reminders

(* triggerReminder that reschedules only after a successful dispatch *)
TriggerReminderResumeOnSuccess(st, t) ==
  LET told == NotifyObservers(st, Event("triggered", t.alert.id, t.user, Null,
                                        t.overall, ""))
      done ==
        IF t.outcome = "returned"
        THEN IF t.overall
             THEN ScheduleReminderOp(told, t.alert, t.user, NoPref)
             ELSE told
        ELSE NotifyObservers(st, Event("error", t.alert.id, t.user, Null, FALSE,
                                       t.error))
  IN [done EXCEPT !.promise = "fulfilled"]

(* triggerReminder after its await: the rest of the try block, or the    *)
(* catch when the dispatcher's promise rejected; then its own promise is   *)
(* fulfilled.                                                               *)
TriggerReminderResume(st, t) ==
  LET done ==
        IF t.outcome = "returned"
        THEN ScheduleReminderOp(
               NotifyObservers(st, Event("triggered", t.alert.id, t.user, Null,
                                         t.overall, "")),
               t.alert, t.user, NoPref)
        ELSE NotifyObservers(st, Event("error", t.alert.id, t.user, Null, FALSE,
                                       t.error))
  IN [done EXCEPT !.promise = "fulfilled"]

(* The scheduler's and dispatcher's state as an operation finds it;        *)
(* `before` is the preference store a preference operation found, `pair`   *)
(* the (alertId, userId) arguments of a call that takes them                *)
(* No analytics result *)
NoResult == [totalAlertsCreated |-> Null]

St ==
  [reminders |-> reminders, timers |-> timers, tasks |-> tasks,
   observers |-> observers, emitted |-> <<>>, started |-> 0, cleared |-> 0, did |-> "none", at |-> Null,
   promise |-> "none", before |-> EmptyMap, pair |-> <<>>, result |-> NoResult]

Last(op, key, alert, preference, st, outcome) ==
  [op |-> op, key |-> key, alert |-> alert, pref |-> preference,
   did |-> st.did, at |-> st.at, started |-> st.started, cleared |-> st.cleared,
   promise |-> st.promise, outcome |-> outcome, before |-> st.before,
   pair |-> st.pair, result |-> st.result]

(* What `last` holds after an operation that is no scheduler or dispatcher call *)
Other == Last("other", "", NoAlert, NoPref, St, "none")

(* onReminderEvent of the observer "o1" (this.reminderLogs.push(event)) for *)
(* the events of one step, kept as the type of the last event per key      *)
RECURSIVE RecordEvents(_, _, _)
RecordEvents(logs, events, i) ==
  IF i > Len(events)
  THEN logs
  ELSE RecordEvents(
         IF \E j \in 1..Len(events[i].to) : events[i].to[j] = "o1"
         THEN MapSet(logs, Key(events[i].alertId, events[i].userId), events[i].type)
         ELSE logs,
         events, i + 1)

Commit(st) ==
  /\ BagCardinality(st.tasks) <= MaxTasks
  /\ reminders' = st.reminders
  /\ timers' = st.timers
  /\ tasks' = st.tasks
  /\ observers' = st.observers
  /\ reminderLogs' = RecordEvents(reminderLogs, st.emitted, 1)
  /\ emitted' = st.emitted

----------------------------------------------------------------------------
Init ==
  /\ now = 0
  /\ channels = [c \in ChannelTypes |->
                   CASE c = "inapp" -> InAppNotificationChannel
                     [] c = "email" -> EmailNotificationChannel
                     [] OTHER -> SMSNotificationChannel]
  /\ deliveryLogs = <<>>
  /\ preferences = EmptyMap
  /\ reminders = EmptyMap
  /\ timers = {}
  /\ tasks = EmptyBag
  /\ observers = <<>>
  /\ alerts = <<>>
  /\ reminderLogs = EmptyMap
  /\ emitted = <<>>
  /\ last = Last("init", "", NoAlert, NoPref, St, "none")

(* The clock advances; a due timer fires and a finished dispatch resumes   *)
(* its caller before the next minute.                                       *)
Tick ==
  /\ now < MaxTime
  /\ \A t \in timers : t.fireAt > now
  /\ \A t \in BagToSet(tasks) : t.pc # "done"
  /\ now' = now + 1
  /\ emitted' = <<>>
  /\ last' = Other
  /\ UNCHANGED <<channels, deliveryLogs, preferences, reminders, timers, tasks, observers, alerts, reminderLogs>>

ScheduleReminder(alert, user, preference) ==
  LET st == ScheduleReminderOp(St, alert, user, preference) IN
  /\ Commit(st)
  /\ last' = Last("scheduleReminder", Key(alert.id, user), alert, preference,
                  [st EXCEPT !.pair = <<alert.id, user>>], "none")
  /\ UNCHANGED <<now, channels, deliveryLogs, preferences, alerts>>

(* The setTimeout callback of scheduleReminder runs *)
FireTimer(t) ==
  LET st == TriggerReminderStart([St EXCEPT !.timers = @ \ {t}], t.alert, t.user) IN
  /\ t.fireAt <= now
  /\ Commit(st)
  /\ last' = Last("fire", t.key, t.alert, NoPref, st, "none")
  /\ UNCHANGED <<now, channels, deliveryLogs, preferences, alerts>>

ClearReminder(reminderId) ==
  LET st == ClearReminderOp(St, reminderId) IN
  /\ Commit(st)
  /\ last' = Last("clearReminder", reminderId, NoAlert, NoPref, st, "none")
  /\ UNCHANGED <<now, channels, deliveryLogs, preferences, alerts>>

(* clearAllReminders that empties the map without clearTimeout *)
ClearAllKeepsTimers ==
  LET st == [St EXCEPT !.reminders = EmptyMap] IN
  /\ Commit(st)
  /\ last' = Last("clearAllReminders", "", NoAlert, NoPref, st, "none")
  /\ UNCHANGED <<now, channels, deliveryLogs, preferences, alerts>>

ClearAllReminders ==
  LET kept == {t \in timers : \A k \in DOMAIN reminders : reminders[k] # t.id}
      st == [St EXCEPT !.timers = kept, !.reminders = EmptyMap,
                       !.cleared = Cardinality(timers \ kept)] IN
  /\ Commit(st)
  /\ last' = Last("clearAllReminders", "", NoAlert, NoPref, st, "none")
  /\ UNCHANGED <<now, channels, deliveryLogs, preferences, alerts>>

(* An external caller (triggerReminders of the API) calls the dispatcher *)
DeliverNotification(alert, user, channelTypes) ==
  LET st == DeliverStart(St, "external", alert, user, channelTypes) IN
  /\ Commit(st)
  /\ last' = Last("deliverNotification", Key(alert.id, user), alert, NoPref, st, "none")
  /\ UNCHANGED <<now, channels, deliveryLogs, preferences, alerts>>

(* The deliver() promise a dispatch awaits settles *)
ChannelSettles(t) ==
  LET st == [St EXCEPT !.tasks = (@ (-) SetToBag({t})) (+) SetToBag({RunLoop(Settle(t))})] IN
  /\ t.pc = "await"
  /\ Len(deliveryLogs) + Len(SettleRecord(t)) <= MaxLog
  /\ deliveryLogs' = PushLog(deliveryLogs, t)
  /\ Commit(st)
  /\ last' = Other
  /\ UNCHANGED <<now, channels, preferences, alerts>>

(* A finished dispatch resumes the triggerReminder that awaits it *)
TriggerResume(t) ==
  LET st == TriggerReminderResume([St EXCEPT !.tasks = @ (-) SetToBag({t})], t) IN
  /\ t.pc = "done"
  /\ t.caller = "trigger"
  /\ Commit(st)
  /\ last' = Last("resume", Key(t.alert.id, t.user), t.alert, NoPref,
                  [st EXCEPT !.result = IF t.outcome = "returned"
                                        THEN [success |-> t.overall]
                                        ELSE NoResult],
                  t.outcome)
  /\ UNCHANGED <<now, channels, deliveryLogs, preferences, alerts>>

(* A finished dispatch returns to (or throws at) its external caller *)
DeliverReturn(t) ==
  LET st == [St EXCEPT !.tasks = @ (-) SetToBag({t})] IN
  /\ t.pc = "done"
  /\ t.caller = "external"
  /\ Commit(st)
  /\ last' = Last("deliverReturn", Key(t.alert.id, t.user), t.alert, NoPref, st, t.outcome)
  /\ UNCHANGED <<now, channels, deliveryLogs, preferences, alerts>>

(* getDeliveryLogs returns a copy of the log; the analytics engine and the *)
(* API read the log through it and only filter, find and reduce the copy   *)
GetDeliveryLogs ==
  /\ emitted' = <<>>
  /\ last' = Last("getDeliveryLogs", "", NoAlert, NoPref,
                  [St EXCEPT !.at = Len(deliveryLogs)], "none")
  /\ UNCHANGED <<now, channels, deliveryLogs, preferences, reminders, timers, tasks, observers, alerts, reminderLogs>>

(* NotificationManager.registerChannel / unregisterChannel *)
RegisterChannel(channel) ==
  /\ channels' = MapSet(channels, channel.type, channel)
  /\ emitted' = <<>>
  /\ last' = Other
  /\ UNCHANGED <<now, deliveryLogs, preferences, reminders, timers, tasks, observers, alerts, reminderLogs>>

UnregisterChannel(channelType) ==
  /\ channels' = MapDelete(channels, channelType)
  /\ emitted' = <<>>
  /\ last' = Other
  /\ UNCHANGED <<now, deliveryLogs, preferences, reminders, timers, tasks, observers, alerts, reminderLogs>>

(* ReminderScheduler.addObserver / removeObserver *)
AddObserver(observer) ==
  /\ Len(observers) < MaxObservers
  /\ observers' = Append(observers, observer)
  /\ emitted' = <<>>
  /\ last' = Other
  /\ UNCHANGED <<now, channels, deliveryLogs, preferences, reminders, timers, tasks, alerts, reminderLogs>>

RemoveObserver(observer) ==
  /\ observers' = RemoveObserverOp(observers, observer)
  /\ emitted' = <<>>
  /\ last' = Other
  /\ UNCHANGED <<now, channels, deliveryLogs, preferences, reminders, timers, tasks, alerts, reminderLogs>>

----------------------------------------------------------------------------
(* UserPreferenceManager *)

Preference(alertId, userId, read, snoozedUntil, lastSnoozedDay) ==
  [alertId |-> alertId, userId |-> userId, read |-> read,
   snoozedUntil |-> snoozedUntil, lastSnoozedDay |-> lastSnoozedDay]

(* format(date, 'yyyy-MM-dd'): the calendar day of an instant *)
Today(t) == t \div DayLen

(* endOfDay(date): the last instant of the calendar day *)
EndOfDay(t) == Today(t) * DayLen + DayLen - 1

GetPreference(alertId, userId) ==
  IF Key(alertId, userId) \in DOMAIN preferences
  THEN preferences[Key(alertId, userId)]
  ELSE NoPref

(* markAsRead / markAsUnread building the record without the existing one *)
SetReadFresh(alertId, userId, read) ==
  Preference(alertId, userId, read, Null, Null)

SetRead(alertId, userId, read) ==
  LET existing == GetPreference(alertId, userId) IN
  Preference(alertId, userId, read,
             IF existing # NoPref THEN existing.snoozedUntil ELSE Null,
             IF existing # NoPref THEN existing.lastSnoozedDay ELSE Null)

PrefStep(op, alertId, userId, store) ==
  /\ preferences' = store
  /\ emitted' = <<>>
  /\ last' = Last(op, Key(alertId, userId), NoAlert, NoPref,
                  [St EXCEPT !.before = preferences, !.pair = <<alertId, userId>>], "none")
  /\ UNCHANGED <<now, channels, deliveryLogs, reminders, timers, tasks, observers, alerts, reminderLogs>>

MarkAsRead(alertId, userId) ==
  PrefStep("markAsRead", alertId, userId,
           MapSet(preferences, Key(alertId, userId), SetRead(alertId, userId, TRUE)))

MarkAsUnread(alertId, userId) ==
  PrefStep("markAsUnread", alertId, userId,
           MapSet(preferences, Key(alertId, userId), SetRead(alertId, userId, FALSE)))

(* snoozeForDay with a rolling day: snoozedUntil one day after the call *)
SnoozedForRollingDay(alertId, userId) ==
  LET existing == GetPreference(alertId, userId) IN
  Preference(alertId, userId,
             IF existing # NoPref THEN existing.read ELSE FALSE,
             now + DayLen, Today(now))

SnoozedForDay(alertId, userId) ==
  LET existing == GetPreference(alertId, userId) IN
  Preference(alertId, userId,
             IF existing # NoPref THEN existing.read ELSE FALSE,
             EndOfDay(now), Today(now))

SnoozeForDay(alertId, userId) ==
  PrefStep("snoozeForDay", alertId, userId,
           MapSet(preferences, Key(alertId, userId), SnoozedForDay(alertId, userId)))

(* EnhancedMockApiService.snoozeAlert after its delay: snoozeForDay for the *)
(* user, then clearReminder of the key                                      *)
SnoozeAlert(alertId, userId) ==
  LET st == ClearReminderOp(St, Key(alertId, userId)) IN
  /\ preferences' = MapSet(preferences, Key(alertId, userId), SnoozedForDay(alertId, userId))
  /\ Commit(st)
  /\ last' = Last("snoozeAlert", Key(alertId, userId), NoAlert, NoPref,
                  [st EXCEPT !.before = preferences, !.pair = <<alertId, userId>>], "none")
  /\ UNCHANGED <<now, channels, deliveryLogs, alerts>>

(* unsnooze as a no-throw operation that creates the missing record *)
UnsnoozeCreates(alertId, userId) ==
  LET existing == GetPreference(alertId, userId) IN
  PrefStep("unsnooze", alertId, userId,
           MapSet(preferences, Key(alertId, userId),
                  IF existing = NoPref
                  THEN Preference(alertId, userId, FALSE, Null, Null)
                  ELSE [existing EXCEPT !.snoozedUntil = Null, !.lastSnoozedDay = Null]))

(* unsnooze throws 'Preference not found' when there is no record *)
Unsnooze(alertId, userId) ==
  LET existing == GetPreference(alertId, userId) IN
  IF existing = NoPref
  THEN /\ emitted' = <<>>
       /\ last' = Last("unsnooze", Key(alertId, userId), NoAlert, NoPref,
                       [St EXCEPT !.before = preferences, !.pair = <<alertId, userId>>],
                       "thrown")
       /\ UNCHANGED <<now, channels, deliveryLogs, preferences, reminders, timers, tasks, observers, alerts, reminderLogs>>
  ELSE PrefStep("unsnooze", alertId, userId,
                MapSet(preferences, Key(alertId, userId),
                       [existing EXCEPT !.snoozedUntil = Null, !.lastSnoozedDay = Null]))

(* the sweep clearing snoozedUntil only *)
ResetExpiredKeepsDay(preference) ==
  IF preference.snoozedUntil # Null /\ preference.snoozedUntil <= now
  THEN [preference EXCEPT !.snoozedUntil = Null]
  ELSE preference

(* the sweep with `<` in place of `<=` *)
ResetExpiredStrict(preference) ==
  IF preference.snoozedUntil # Null /\ preference.snoozedUntil < now
  THEN [preference EXCEPT !.snoozedUntil = Null, !.lastSnoozedDay = Null]
  ELSE preference

ResetExpired(preference) ==
  IF preference.snoozedUntil # Null /\ preference.snoozedUntil <= now
  THEN [preference EXCEPT !.snoozedUntil = Null, !.lastSnoozedDay = Null]
  ELSE preference

ResetExpiredSnoozes ==
  /\ preferences' = [k \in DOMAIN preferences |-> ResetExpired(preferences[k])]
  /\ emitted' = <<>>
  /\ last' = Last("resetExpiredSnoozes", "", NoAlert, NoPref,
                  [St EXCEPT !.before = preferences], "none")
  /\ UNCHANGED <<now, channels, deliveryLogs, reminders, timers, tasks, observers, alerts, reminderLogs>>

(* isSnoozedForToday with `>=` in place of `>` *)
IsSnoozedThroughEnd(alertId, userId) ==
  LET preference == GetPreference(alertId, userId) IN
  IF preference = NoPref \/ preference.snoozedUntil = Null
  THEN FALSE
  ELSE preference.snoozedUntil >= now

IsSnoozedForToday(alertId, userId) ==
  LET preference == GetPreference(alertId, userId) IN
  IF preference = NoPref \/ preference.snoozedUntil = Null
  THEN FALSE
  ELSE preference.snoozedUntil > now

ShouldResetSnooze(alertId, userId) ==
  LET preference == GetPreference(alertId, userId) IN
  IF preference = NoPref \/ preference.lastSnoozedDay = Null
  THEN FALSE
  ELSE preference.lastSnoozedDay # Today(now)

----------------------------------------------------------------------------
(* AnalyticsEngine (auth.ts).  Its inputs are the catalog handed to        *)
(* updateData, a copy of the delivery log and the stored preferences.      *)

(* Array.from(this.preferences.values()) *)
RECURSIVE ValuesOf(_, _)
ValuesOf(store, keys) ==
  IF keys = {}
  THEN <<>>
  ELSE LET k == CHOOSE x \in keys : TRUE IN
       <<store[k]>> \o ValuesOf(store, keys \ {k})

GetAllPreferences == ValuesOf(preferences, DOMAIN preferences)

(* [...this.deliveryLogs] *)
DeliveryLogsCopy == [i \in 1..Len(deliveryLogs) |-> deliveryLogs[i]]

(* !alert.archived && isBefore(now, expiryTime) && isAfter(now, startTime) *)
IsActive(alert) ==
  ~alert.archived /\ now < alert.expiryTime /\ now > alert.startTime

(* The snooze filter counting only snoozes that have not run out *)
HasActiveSnooze(pref) == pref.snoozedUntil # Null /\ pref.snoozedUntil > now

(* filter(pref => pref.snoozedUntil): the field is a non-empty string or   *)
(* undefined                                                                *)
HasSnoozedUntil(pref) == pref.snoozedUntil # Null

(* reduce((acc, x) => { acc[key] = (acc[key] || 0) + 1; return acc }, {}) *)
RECURSIVE Tally(_, _, _)
Tally(keys, i, acc) ==
  IF i > Len(keys)
  THEN acc
  ELSE Tally(keys, i + 1,
             MapSet(acc, keys[i], (IF keys[i] \in DOMAIN acc THEN acc[keys[i]] ELSE 0) + 1))

GenerateAnalyticsOp ==
  LET logs == DeliveryLogsCopy
      prefs == GetAllPreferences
      snoozed == SelectSeq(prefs, HasSnoozedUntil)
  IN [totalAlertsCreated |-> Len(alerts),
      alertsActive |-> Len(SelectSeq(alerts, IsActive)),
      deliveredCount |-> Len(SelectSeq(logs, LAMBDA log : log.delivered)),
      readCount |-> Len(SelectSeq(prefs, LAMBDA pref : pref.read)),
      snoozeCountsPerAlert |-> Tally([i \in 1..Len(snoozed) |-> snoozed[i].alertId], 1, EmptyMap),
      severityBreakdown |-> Tally([i \in 1..Len(alerts) |-> alerts[i].severity], 1, EmptyMap)]

(* Math.floor of the non-negative quotient num / den *)
MathFloor(num, den) == num \div den

(* Math.round of the non-negative quotient num / den: halves round up *)
MathRound(num, den) == (2 * num + den) \div (2 * den)

(* Math.round(engagementRate * 100) / 100, kept in hundredths: 3333 is    *)
(* the number 33.33                                                         *)
EngagementRate(readCount, deliveredCount) ==
  IF deliveredCount > 0
  THEN MathRound(readCount * 100 * 100, deliveredCount)
  ELSE 0

(* The reduce of calculateChannelPerformance: per channel of the log the  *)
(* records, the delivered ones and the others                               *)
RECURSIVE ChannelStats(_, _, _)
ChannelStats(logs, i, acc) ==
  IF i > Len(logs)
  THEN acc
  ELSE LET log == logs[i]
           old == IF log.channel \in DOMAIN acc
                  THEN acc[log.channel]
                  ELSE [sent |-> 0, delivered |-> 0, failed |-> 0]
       IN ChannelStats(logs, i + 1,
            MapSet(acc, log.channel,
                   [sent |-> old.sent + 1,
                    delivered |-> old.delivered + (IF log.delivered THEN 1 ELSE 0),
                    failed |-> old.failed + (IF log.delivered THEN 0 ELSE 1)]))

CalculateChannelPerformance(logs) ==
  LET channelStats == ChannelStats(logs, 1, EmptyMap) IN
  [c \in DOMAIN channelStats |->
     [sent |-> channelStats[c].sent,
      delivered |-> channelStats[c].delivered,
      failed |-> channelStats[c].failed,
      successRate |-> IF channelStats[c].sent > 0
                      THEN MathRound(channelStats[c].delivered * 100, channelStats[c].sent)
                      ELSE 0]]

GenerateDetailedAnalyticsOp ==
  LET basicAnalytics == GenerateAnalyticsOp IN
  [totalAlertsCreated |-> basicAnalytics.totalAlertsCreated,
   alertsActive |-> basicAnalytics.alertsActive,
   deliveredCount |-> basicAnalytics.deliveredCount,
   readCount |-> basicAnalytics.readCount,
   snoozeCountsPerAlert |-> basicAnalytics.snoozeCountsPerAlert,
   severityBreakdown |-> basicAnalytics.severityBreakdown,
   engagementRate |-> EngagementRate(basicAnalytics.readCount, basicAnalytics.deliveredCount),
   channelPerformance |-> CalculateChannelPerformance(DeliveryLogsCopy)]

UpdateData(catalog) ==
  /\ alerts' = catalog
  /\ emitted' = <<>>
  /\ last' = Other
  /\ UNCHANGED <<now, channels, deliveryLogs, preferences, reminders, timers, tasks,
                 observers, reminderLogs>>

GenerateAnalytics ==
  /\ emitted' = <<>>
  /\ last' = Last("generateAnalytics", "", NoAlert, NoPref,
                  [St EXCEPT !.result = GenerateAnalyticsOp], "none")
  /\ UNCHANGED <<now, channels, deliveryLogs, preferences, reminders, timers, tasks,
                 observers, alerts, reminderLogs>>

(* generateDetailedAnalytics that empties the delivery log it aggregated *)
GenerateDetailedAnalyticsDrains ==
  /\ deliveryLogs' = <<>>
  /\ emitted' = <<>>
  /\ last' = Last("generateDetailedAnalytics", "", NoAlert, NoPref,
                  [St EXCEPT !.result = GenerateDetailedAnalyticsOp], "none")
  /\ UNCHANGED <<now, channels, preferences, reminders, timers, tasks,
                 observers, alerts, reminderLogs>>

GenerateDetailedAnalytics ==
  /\ emitted' = <<>>
  /\ last' = Last("generateDetailedAnalytics", "", NoAlert, NoPref,
                  [St EXCEPT !.result = GenerateDetailedAnalyticsOp], "none")
  /\ UNCHANGED <<now, channels, deliveryLogs, preferences, reminders, timers, tasks,
                 observers, alerts, reminderLogs>>

----------------------------------------------------------------------------
(* The preference argument of a scheduleReminder call: none, the stored    *)
(* record (as the API passes it) or a record with no snooze.                *)
PreferenceArgs(alertId, userId) ==
  {NoPref, GetPreference(alertId, userId), Preference(alertId, userId, FALSE, Null, Null),
   Preference(alertId, userId, TRUE, EndOfDay(0), Today(0))}

(* Channel objects registered in the scheduler's runs *)
SchedulerChannelInputs ==
  {InAppNotificationChannel, Channel("inapp", "throw", "ok")}

(* The scheduler with the built-in channels and the clock *)
Next ==
  \/ Tick
  \/ \E a \in AlertInputs, u \in UserIds :
       \E p \in PreferenceArgs(a.id, u) : ScheduleReminder(a, u, p)
  \/ \E t \in timers : FireTimer(t)
  \/ \E k \in Keys : ClearReminder(k)
  \/ ClearAllReminders
  \/ \E t \in BagToSet(tasks) : ChannelSettles(t)
  \/ \E t \in BagToSet(tasks) : TriggerResume(t)

Spec == Init /\ [][Next]_vars

(* The scheduler's cancellations against eligible alerts: external calls   *)
(* interleaved with triggers suspended at the dispatcher                    *)
NextCancel ==
  \/ Tick
  \/ \E a \in {Alert(i, FALSE, TRUE) : i \in AlertIds}, u \in UserIds :
       \E p \in {NoPref, Preference(a.id, u, FALSE, Null, Null)} :
         ScheduleReminder(a, u, p)
  \/ \E t \in timers : FireTimer(t)
  \/ \E k \in Keys : ClearReminder(k)
  \/ ClearAllReminders
  \/ \E t \in BagToSet(tasks) : ChannelSettles(t)
  \/ \E t \in BagToSet(tasks) : TriggerResume(t)

SpecCancel == Init /\ [][NextCancel]_vars

(* The scheduler with observers and a dispatcher that can throw: the       *)
(* in-app channel may be replaced by one whose isAvailable() throws         *)
NextError ==
  \/ Tick
  \/ \E a \in {Alert("a1", FALSE, TRUE)}, u \in UserIds :
       \E p \in {NoPref, Preference(a.id, u, FALSE, Null, Null)} :
         ScheduleReminder(a, u, p)
  \/ \E t \in timers : FireTimer(t)
  \/ \E t \in BagToSet(tasks) : ChannelSettles(t)
  \/ \E t \in BagToSet(tasks) : TriggerResume(t)
  \/ \E c \in SchedulerChannelInputs : RegisterChannel(c)
  \/ \E o \in {"o1"} : AddObserver(o)

SpecError == Init /\ [][NextError]_vars

(* The scheduler with the stored snooze of the preference manager *)
NextSnooze ==
  \/ Tick
  \/ \E a \in {Alert(i, FALSE, TRUE) : i \in AlertIds}, u \in UserIds :
       \E p \in {NoPref, GetPreference(a.id, u)} : ScheduleReminder(a, u, p)
  \/ \E t \in timers : FireTimer(t)
  \/ \E k \in Keys : ClearReminder(k)
  \/ \E t \in BagToSet(tasks) : ChannelSettles(t)
  \/ \E t \in BagToSet(tasks) : TriggerResume(t)
  \/ \E a \in AlertIds, u \in UserIds : SnoozeForDay(a, u)

SpecSnooze == Init /\ [][NextSnooze]_vars

(* The channelTypes arguments of external deliverNotification calls *)
ChannelTypeLists == {<<"inapp", "email">>, <<"email", "inapp">>}

(* The dispatcher alone: external deliverNotification calls over a         *)
(* changing channel registry                                                *)
NextDispatch ==
  \/ \E a \in {Alert("a1", FALSE, TRUE)}, u \in UserIds, c \in ChannelTypeLists :
       DeliverNotification(a, u, c)
  \/ \E t \in BagToSet(tasks) : ChannelSettles(t)
  \/ \E t \in BagToSet(tasks) : DeliverReturn(t)
  \/ \E c \in ChannelInputs : RegisterChannel(c)
  \/ \E c \in {"email"} : UnregisterChannel(c)

SpecDispatch == Init /\ [][NextDispatch]_vars

(* The delivery log under external calls, the scheduler's triggers, a      *)
(* changing registry and readers of the log                                 *)
NextLog ==
  \/ Tick
  \/ \E a \in {Alert("a2", FALSE, TRUE)}, u \in UserIds :
       \E p \in {Preference(a.id, u, FALSE, Null, Null)} : ScheduleReminder(a, u, p)
  \/ \E t \in timers : FireTimer(t)
  \/ \E t \in BagToSet(tasks) : ChannelSettles(t)
  \/ \E t \in BagToSet(tasks) : TriggerResume(t)
  \/ \E a \in {Alert("a1", FALSE, TRUE)}, u \in UserIds, c \in {<<"email", "inapp">>} :
       DeliverNotification(a, u, c)
  \/ \E t \in BagToSet(tasks) : DeliverReturn(t)
  \/ \E c \in {Channel("email", "yes", "fail")} : RegisterChannel(c)
  \/ \E c \in {"email"} : UnregisterChannel(c)
  \/ GetDeliveryLogs

SpecLog == Init /\ [][NextLog]_vars

(* The preference manager alone, with the clock *)
NextPrefs ==
  \/ Tick
  \/ \E a \in AlertIds, u \in UserIds : MarkAsRead(a, u)
  \/ \E a \in AlertIds, u \in UserIds : MarkAsUnread(a, u)
  \/ \E a \in AlertIds, u \in UserIds : SnoozeForDay(a, u)
  \/ \E a \in AlertIds, u \in UserIds : Unsnooze(a, u)
  \/ ResetExpiredSnoozes

SpecPrefs == Init /\ [][NextPrefs]_vars

(* The scheduler with observers that come and go *)
NextObservers ==
  \/ Tick
  \/ \E a \in {Alert("a1", FALSE, TRUE)}, u \in UserIds :
       \E p \in {NoPref, Preference(a.id, u, FALSE, Null, Null)} :
         ScheduleReminder(a, u, p)
  \/ \E t \in timers : FireTimer(t)
  \/ \E t \in BagToSet(tasks) : ChannelSettles(t)
  \/ \E t \in BagToSet(tasks) : TriggerResume(t)
  \/ \E o \in ObserverIds : AddObserver(o)
  \/ \E o \in ObserverIds : RemoveObserver(o)

SpecObservers == Init /\ [][NextObservers]_vars

(* The scheduler with an alert that expires while its timer is armed *)
NextExpiry ==
  \/ Tick
  \/ \E a \in {Alert("a3", FALSE, TRUE), Alert("a1", FALSE, TRUE)}, u \in UserIds :
       \E p \in {NoPref, Preference(a.id, u, FALSE, Null, Null)} :
         ScheduleReminder(a, u, p)
  \/ \E t \in timers : FireTimer(t)
  \/ \E k \in {Key("a3", u) : u \in UserIds} : ClearReminder(k)
  \/ \E t \in BagToSet(tasks) : ChannelSettles(t)
  \/ \E t \in BagToSet(tasks) : TriggerResume(t)

SpecExpiry == Init /\ [][NextExpiry]_vars

(* The scheduler left to itself after scheduleReminder calls for one alert, *)
(* with the API service ("o1") subscribed as in its constructor             *)
NextStream ==
  \/ Tick
  \/ AddObserver("o1")
  \/ \E u \in UserIds :
       \E p \in {NoPref, Preference("a1", u, FALSE, Null, Null)} :
         ScheduleReminder(Alert("a1", FALSE, TRUE), u, p)
  \/ \E t \in timers : FireTimer(t)
  \/ \E t \in BagToSet(tasks) : ChannelSettles(t)
  \/ \E t \in BagToSet(tasks) : TriggerResume(t)

SpecStream == Init /\ [][NextStream]_vars

(* The catalogs handed to updateData *)
Catalogs ==
  {<<>>, <<Alert("a1", FALSE, TRUE)>>,
   <<Alert("a1", FALSE, TRUE), Alert("a2", FALSE, TRUE)>>,
   <<Alert("a1", TRUE, TRUE), Alert("a2", FALSE, TRUE), Alert("a3", FALSE, TRUE)>>}

(* The (alertId, userId) pairs whose preferences the analytics runs touch *)
AnalyticsPairs == {<<"a1", "u1">>, <<"a1", "u2">>, <<"a2", "u1">>}

(* A delivery log of one failed in-app delivery followed by n successful   *)
(* ones                                                                     *)
DeliveredLog(n) ==
  LET t == NewTask("external", Alert("a1", FALSE, TRUE), "u1", <<"inapp">>) IN
  <<LogRecord(t, FALSE, "Delivery failed")>> \o [i \in 1..n |-> LogRecord(t, TRUE, "")]

AnalyticsLogs == {<<>>} \cup {DeliveredLog(n) : n \in 0..MaxDelivered}

(* The state after construction with a delivery log already written *)
InitAnalytics ==
  /\ now = 0
  /\ channels = [c \in ChannelTypes |->
                   CASE c = "inapp" -> InAppNotificationChannel
                     [] c = "email" -> EmailNotificationChannel
                     [] OTHER -> SMSNotificationChannel]
  /\ deliveryLogs \in AnalyticsLogs
  /\ preferences = EmptyMap
  /\ reminders = EmptyMap
  /\ timers = {}
  /\ tasks = EmptyBag
  /\ observers = <<>>
  /\ alerts = <<>>
  /\ reminderLogs = EmptyMap
  /\ emitted = <<>>
  /\ last = Last("init", "", NoAlert, NoPref, St, "none")

(* The analytics engine over a catalog, a delivery log and preferences *)
NextAnalytics ==
  \/ Tick
  \/ \E c \in Catalogs : UpdateData(c)
  \/ \E p \in AnalyticsPairs : MarkAsRead(p[1], p[2])
  \/ \E p \in AnalyticsPairs : SnoozeForDay(p[1], p[2])
  \/ GenerateAnalytics
  \/ GenerateDetailedAnalytics

SpecAnalytics == InitAnalytics /\ [][NextAnalytics]_vars

(* The analytics engine beside a running scheduler *)
NextReadOnly ==
  \/ Tick
  \/ \E u \in UserIds :
       ScheduleReminder(Alert("a1", FALSE, TRUE), u, Preference("a1", u, FALSE, Null, Null))
  \/ \E t \in timers : FireTimer(t)
  \/ \E t \in BagToSet(tasks) : ChannelSettles(t)
  \/ \E t \in BagToSet(tasks) : TriggerResume(t)
  \/ \E u \in UserIds : MarkAsRead("a1", u)
  \/ UpdateData(<<Alert("a1", FALSE, TRUE)>>)
  \/ GenerateAnalytics
  \/ GenerateDetailedAnalytics

SpecReadOnly == Init /\ [][NextReadOnly]_vars

(* The dispatcher over a changing email channel and the analytics engine *)
NextChannels ==
  \/ \E u \in UserIds, c \in ChannelTypeLists :
       DeliverNotification(Alert("a1", FALSE, TRUE), u, c)
  \/ \E t \in BagToSet(tasks) : ChannelSettles(t)
  \/ \E t \in BagToSet(tasks) : DeliverReturn(t)
  \/ RegisterChannel(Channel("email", "yes", "throw"))
  \/ UnregisterChannel("email")
  \/ GenerateDetailedAnalytics

SpecChannels == Init /\ [][NextChannels]_vars

(* The scheduler called with the stored preference, as the API service    *)
(* calls it for existing alerts, and users snoozing alerts                  *)
NextSnoozeAlert ==
  \/ Tick
  \/ \E u \in UserIds :
       ScheduleReminder(Alert("a1", FALSE, TRUE), u, GetPreference("a1", u))
  \/ \E t \in timers : FireTimer(t)
  \/ \E t \in BagToSet(tasks) : ChannelSettles(t)
  \/ \E t \in BagToSet(tasks) : TriggerResume(t)
  \/ \E u \in UserIds : SnoozeAlert("a1", u)

SpecSnoozeAlert == Init /\ [][NextSnoozeAlert]_vars

(* Alert and user ids that contain the separator of the key *)
PairAlertIds == {"a", "a_b"}

PairUserIds == {"c", "b_c"}

(* Two different (alertId, userId) pairs *)
Pairs == {<<"a_b", "c">>, <<"a", "b_c">>}

(* The scheduler and the preference manager over pairs whose ids contain   *)
(* the '_' of the key                                                       *)
NextPairs ==
  \/ Tick
  \/ \E q \in Pairs :
       ScheduleReminder(Alert(q[1], FALSE, TRUE), q[2],
                        Preference(q[1], q[2], FALSE, Null, Null))
  \/ \E t \in timers : FireTimer(t)
  \/ \E q \in Pairs : ClearReminder(Key(q[1], q[2]))
  \/ \E t \in BagToSet(tasks) : ChannelSettles(t)
  \/ \E t \in BagToSet(tasks) : TriggerResume(t)
  \/ \E q \in Pairs : MarkAsRead(q[1], q[2])
  \/ \E q \in Pairs : SnoozeForDay(q[1], q[2])

SpecPairs == Init /\ [][NextPairs]_vars

----------------------------------------------------------------------------
(* Properties *)

TimersOf(key) == {t \in timers : t.key = key}

Scheduled == last.op = "scheduleReminder"

(* now is inside the half-open window [startTime, expiryTime) *)
InWindow(alert) == alert.startTime <= now /\ now < alert.expiryTime

OtherwiseEligible(alert) ==
  ~alert.archived /\ alert.reminderEnabled /\ InWindow(alert)

ArmedNothing ==
  /\ last.did = "skipped"
  /\ last.started = 0
  /\ TimersOf(last.key) = {}
  /\ last.key \notin DOMAIN reminders

(* C1: every key has at most one armed timer, whatever sequence of        *)
(* scheduleReminder, clearReminder, clearAllReminders and firings ran.     *)
C1_OneTimerPerKey == \A k \in Keys : Cardinality(TimersOf(k)) <= 1

(* a scheduleReminder call that found a timer armed for its key, cancelled *)
(* it and armed a new one                                                   *)
C1_Witness ==
  /\ Scheduled
  /\ last.cleared = 1
  /\ last.did = "armed"
  /\ Cardinality(TimersOf(last.key)) = 1

(* C2: a scheduleReminder call for an alert that is archived, has          *)
(* reminders disabled, or with now < startTime or now >= expiryTime arms    *)
(* no timer, dispatches nothing and leaves the key out of the active set.   *)
C2_IneligibleArmsNothing ==
  (Scheduled /\ ~OtherwiseEligible(last.alert)) => ArmedNothing

(* C3: for an otherwise eligible alert, a preference with snoozedUntil >   *)
(* now arms no timer and dispatches nothing; with the same preference once *)
(* now > snoozedUntil the call arms the timer a preference with no snooze  *)
(* gets: the first grid instant after now.                                  *)
C3_SnoozeSuppresses ==
  (Scheduled /\ OtherwiseEligible(last.alert) /\ last.pref # NoPref
     /\ last.pref.snoozedUntil # Null) =>
    /\ last.pref.snoozedUntil > now => ArmedNothing
    /\ last.pref.snoozedUntil < now =>
         /\ last.did = "armed"
         /\ \E t \in TimersOf(last.key) :
              /\ t.fireAt = last.at
              /\ t.fireAt > now
              /\ t.fireAt - last.alert.reminderFrequencyMinutes <= now
              /\ (t.fireAt - last.alert.createdAt) % last.alert.reminderFrequencyMinutes = 0

(* the later call: the snooze of the supplied preference has passed and a  *)
(* timer is armed                                                           *)
C3_Witness ==
  /\ Scheduled
  /\ OtherwiseEligible(last.alert)
  /\ last.pref # NoPref
  /\ last.pref.snoozedUntil # Null
  /\ last.pref.snoozedUntil < now
  /\ last.did = "armed"

(* C4: with a preference supplied the computed fire time is createdAt +    *)
(* n * frequency for the smallest n that puts it strictly after now, and   *)
(* every armed timer's fire time lies on that grid.                         *)
C4_GridAligned ==
  /\ (Scheduled /\ last.pref # NoPref /\ last.did # "skipped") =>
       LET F == last.alert.reminderFrequencyMinutes
           T0 == last.alert.createdAt
       IN /\ (last.at - T0) % F = 0
          /\ last.at > now
          /\ last.at - F <= now
  /\ \A t \in timers :
       (t.fireAt - t.alert.createdAt) % t.alert.reminderFrequencyMinutes = 0

(* a fire time computed strictly inside a grid interval *)
C4_Witness ==
  /\ Scheduled
  /\ last.pref # NoPref
  /\ last.did = "armed"
  /\ (now - last.alert.createdAt) % last.alert.reminderFrequencyMinutes # 0
  /\ \E t \in timers : t.key = last.key /\ t.fireAt = last.at

Ceil(a, b) == -((-a) \div b)

(* C5 as stated: the fire time is createdAt + ceil((now - createdAt) /     *)
(* frequency) * frequency for every now >= createdAt, so that on a grid    *)
(* instant it equals now and the reminder fires synchronously.              *)
C5_CeilFormula ==
  (Scheduled /\ last.pref # NoPref /\ last.did # "skipped"
     /\ now >= last.alert.createdAt) =>
    LET F == last.alert.reminderFrequencyMinutes
        T0 == last.alert.createdAt
    IN /\ last.at = T0 + Ceil(now - T0, F) * F
       /\ (now - T0) % F = 0 => last.did = "fired"

(* C5 amended: the fire time is createdAt + (floor((now - createdAt) /     *)
(* frequency) + 1) * frequency; on a grid instant it is now + frequency,   *)
(* and with a preference supplied a timer is armed, never a synchronous    *)
(* firing.                                                                  *)
C5_FloorPlusOne ==
  (Scheduled /\ last.pref # NoPref /\ last.did # "skipped"
     /\ now >= last.alert.createdAt) =>
    LET F == last.alert.reminderFrequencyMinutes
        T0 == last.alert.createdAt
    IN /\ last.at = T0 + ((now - T0) \div F + 1) * F
       /\ (now - T0) % F = 0 => last.at = now + F
       /\ last.did = "armed"
       /\ last.started = 0

(* a call made on a grid instant *)
C5_Witness ==
  /\ Scheduled
  /\ last.pref # NoPref
  /\ last.did = "armed"
  /\ now > last.alert.createdAt
  /\ (now - last.alert.createdAt) % last.alert.reminderFrequencyMinutes = 0

StoredSnoozeActive(key) ==
  /\ key \in DOMAIN preferences
  /\ preferences[key].snoozedUntil # Null
  /\ preferences[key].snoozedUntil > now

(* C6: when a trigger completes while the preference store holds an active *)
(* snooze for its key, the reschedule arms no timer and dispatches nothing. *)
C6_RescheduleHonoursStoredSnooze ==
  (last.op = "resume" /\ last.outcome = "returned" /\ StoredSnoozeActive(last.key)) =>
    /\ last.started = 0
    /\ TimersOf(last.key) = {}

(* C7: a dispatch that throws ends in exactly one `error` event with the   *)
(* alertId, the userId and the error text, handed to the registered        *)
(* observers, and the promise of triggerReminder is never rejected.         *)
C7_DispatchErrorBecomesEvent ==
  /\ last.promise # "rejected"
  /\ (last.op = "resume" /\ last.outcome = "thrown") =>
       /\ last.promise = "fulfilled"
       /\ Len(emitted) = 1
       /\ emitted[1].type = "error"
       /\ emitted[1].alertId = last.alert.id
       /\ Key(emitted[1].alertId, emitted[1].userId) = last.key
       /\ emitted[1].error = "isAvailable failed"
       /\ emitted[1].to = observers

(* a trigger whose dispatch threw, with an observer registered *)
C7_Witness ==
  /\ last.op = "resume"
  /\ last.outcome = "thrown"
  /\ Len(observers) > 0
  /\ Len(emitted) = 1

(* C8: after an `error` event for a key whose alert is still eligible and  *)
(* not snoozed, the trigger itself produces the next cycle: a timer or a   *)
(* further trigger.                                                         *)
C8_CycleContinuesAfterError ==
  (last.op = "resume" /\ last.outcome = "thrown" /\ OtherwiseEligible(last.alert)
     /\ ~StoredSnoozeActive(last.key)) =>
    last.did \in {"armed", "fired"}

Returned(t) == t.pc = "done" /\ t.outcome = "returned"

(* C9: a deliverNotification call with n channel types has appended        *)
(* exactly n delivery-log records when it returns.                          *)
C9_OneLogRecordPerAttempt ==
  \A t \in BagToSet(tasks) : Returned(t) => t.logged = Len(t.types)

(* What the claim expects for a channel type, given the channel object the *)
(* registry held when the type was attempted                                *)
ExpectedResult(channelType, channel) ==
  CASE channel = NoChannel -> Result(channelType, FALSE, "Channel not found")
    [] channel.available = "no" -> Result(channelType, FALSE, "Channel not available")
    [] channel.deliver = "ok" -> Result(channelType, TRUE, "")
    [] channel.deliver = "fail" -> Result(channelType, FALSE, "Delivery failed")
    [] OTHER -> Result(channelType, FALSE, "Channel error")

(* C10: one result per requested channel type, in the order requested,     *)
(* 'Channel not found' for an unregistered type, 'Channel not available'   *)
(* for an unavailable one, and otherwise what the channel's deliver gave.   *)
C10_ResultPerChannel ==
  \A t \in BagToSet(tasks) :
    /\ Len(t.results) <= Len(t.types)
    /\ Returned(t) => Len(t.results) = Len(t.types)
    /\ \A i \in 1..Len(t.results) :
         /\ t.results[i].channel = t.types[i]
         /\ t.results[i] = ExpectedResult(t.types[i], t.seen[i])

(* a returned call with an unavailable channel followed by a delivered one *)
C10_Witness ==
  \E t \in BagToSet(tasks) :
    /\ Returned(t)
    /\ Len(t.results) = 2
    /\ t.types = <<"email", "inapp">>
    /\ t.results[1].error = "Channel not available"
    /\ t.results[2].success

(* C11: the `success` a deliverNotification call returns is true exactly   *)
(* when every per-channel result succeeded, and a failed result at a       *)
(* position before the last is followed by an attempt on the next channel  *)
(* type.                                                                    *)
C11_SuccessIsConjunction ==
  \A t \in BagToSet(tasks) :
    /\ Returned(t) => (t.overall <=> \A i \in 1..Len(t.results) : t.results[i].success)
    /\ \A i \in 1..Len(t.results) :
         (~t.results[i].success /\ i < Len(t.types)) => Len(t.seen) > i

(* a returned call whose first channel type was not registered and whose   *)
(* second was delivered                                                     *)
C11_Witness ==
  \E t \in BagToSet(tasks) :
    /\ Returned(t)
    /\ ~t.overall
    /\ Len(t.results) = 2
    /\ t.results[1].error = "Channel not found"
    /\ t.results[2].success

(* The channel objects the call has used so far all answered isAvailable() *)
AvailabilityAnswered(t) ==
  \A i \in 1..Len(t.seen) : t.seen[i].available # "throw"

FailingChannel(channel) ==
  channel # NoChannel /\ (channel.available = "no" \/ channel.deliver \in {"fail", "throw"})

IsPrefix(s, t) == Len(s) <= Len(t) /\ \A i \in 1..Len(s) : s[i] = t[i]

(* C13: every step leaves the delivery log as it was or appends to it: the *)
(* log before the step is a prefix of the log after it.                     *)
C13_LogAppendOnly == [][IsPrefix(deliveryLogs, deliveryLogs')]_vars

(* a reader sees a log of two different records *)
C13_Witness ==
  /\ last.op = "getDeliveryLogs"
  /\ last.at = 2
  /\ Len(deliveryLogs) = 2
  /\ deliveryLogs[1] # deliveryLogs[2]

(* The record the last preference operation found under key k *)
Before(k) == IF k \in DOMAIN last.before THEN last.before[k] ELSE NoPref

(* C14: markAsRead and markAsUnread leave the snooze fields of the key as  *)
(* they were (null for a record they create); snoozeForDay and unsnooze    *)
(* leave `read` as it was.                                                  *)
C14_ReadSnoozeIndependent ==
  /\ last.op \in {"markAsRead", "markAsUnread"} =>
       LET b == Before(last.key)
           p == preferences[last.key]
       IN /\ p.read = (last.op = "markAsRead")
          /\ p.snoozedUntil = (IF b = NoPref THEN Null ELSE b.snoozedUntil)
          /\ p.lastSnoozedDay = (IF b = NoPref THEN Null ELSE b.lastSnoozedDay)
  /\ (last.op \in {"snoozeForDay", "unsnooze"} /\ last.outcome # "thrown") =>
       LET b == Before(last.key)
           p == preferences[last.key]
       IN p.read = (IF b = NoPref THEN FALSE ELSE b.read)

(* markAsRead on a record that is snoozed *)
C14_Witness ==
  /\ last.op = "markAsRead"
  /\ Before(last.key) # NoPref
  /\ ~Before(last.key).read
  /\ preferences[last.key].read
  /\ preferences[last.key].snoozedUntil # Null

(* C15: resetExpiredSnoozes clears both snooze fields of every record with *)
(* snoozedUntil <= now and leaves every other record, `read` and the set   *)
(* of records as they were.                                                 *)
C15_SweepClearsExpired ==
  last.op = "resetExpiredSnoozes" =>
    /\ DOMAIN preferences = DOMAIN last.before
    /\ \A k \in DOMAIN preferences :
         LET b == last.before[k] IN
         IF b.snoozedUntil # Null /\ b.snoozedUntil <= now
         THEN preferences[k] = [b EXCEPT !.snoozedUntil = Null, !.lastSnoozedDay = Null]
         ELSE preferences[k] = b

(* a sweep that cleared an expired snooze and left a future one *)
C15_Witness ==
  /\ last.op = "resetExpiredSnoozes"
  /\ \E k \in DOMAIN preferences :
       /\ last.before[k].snoozedUntil # Null
       /\ last.before[k].snoozedUntil <= now
       /\ preferences[k].snoozedUntil = Null
  /\ \E k \in DOMAIN preferences :
       /\ last.before[k].snoozedUntil > now
       /\ preferences[k] = last.before[k]

(* C16: unsnooze on an existing record clears both snooze fields and keeps *)
(* the rest; on a key with no record it throws and the store is unchanged.  *)
C16_UnsnoozeOrNotFound ==
  last.op = "unsnooze" =>
    IF last.key \in DOMAIN last.before
    THEN /\ last.outcome = "none"
         /\ preferences = MapSet(last.before, last.key,
                                 [Before(last.key) EXCEPT !.snoozedUntil = Null,
                                                          !.lastSnoozedDay = Null])
    ELSE /\ last.outcome = "thrown"
         /\ preferences = last.before

(* unsnooze threw for a key with no record while another key has one *)
C16_Witness ==
  /\ last.op = "unsnooze"
  /\ last.outcome = "thrown"
  /\ last.key \notin DOMAIN preferences
  /\ preferences # EmptyMap

(* No callback of the pass changes the observer list *)
QuietPass(e) ==
  \A k \in 1..Len(e.registered) : OnReminderEvent(e.registered[k], e.registered) = e.registered

Count(seq, x) == Cardinality({i \in 1..Len(seq) : seq[i] = x})

(* C18: when a callback calls removeObserver during the pass, every        *)
(* observer that was registered when the pass began and that no callback   *)
(* removed is invoked exactly once per registration.                        *)
C18_RemovalDoesNotSkip ==
  \A i \in 1..Len(emitted) :
    \A o \in ObserverIds :
      (Count(emitted[i].registered, o) > 0
         /\ Count(emitted[i].after, o) = Count(emitted[i].registered, o)) =>
        Count(emitted[i].to, o) = Count(emitted[i].registered, o)

(* C19: clearReminder(key) leaves no timer armed for the key and the key   *)
(* out of the active set, touches no other key, and changes nothing when   *)
(* the key is not in the active set; clearAllReminders leaves no timer     *)
(* armed and the active set empty.                                          *)
C19_ClearCancels ==
  [][ /\ (last'.op = "clearReminder") =>
           ( /\ last'.key \notin DOMAIN reminders'
             /\ timers' = {t \in timers : t.key # last'.key}
             /\ \A k \in DOMAIN reminders \ {last'.key} :
                  k \in DOMAIN reminders' /\ reminders'[k] = reminders[k]
             /\ (last'.key \notin DOMAIN reminders) =>
                  ( /\ last'.cleared = 0
                    /\ UNCHANGED <<reminders, timers, tasks, preferences, deliveryLogs>> ) )
      /\ (last'.op = "clearAllReminders") =>
           ( /\ reminders' = EmptyMap
             /\ timers' = {}
             /\ last'.cleared = Cardinality(timers) )
    ]_vars

(* clearReminder cancelled the armed timer of its key and left the timer   *)
(* of the other key armed                                                   *)
C19_Witness ==
  /\ last.op = "clearReminder"
  /\ last.cleared = 1
  /\ last.key \notin DOMAIN reminders
  /\ Cardinality(timers) = 1

(* C20: whatever external scheduleReminder and clearReminder calls arrive  *)
(* while a trigger of the key is suspended, and after the trigger's own    *)
(* reschedule, a key has at most one armed timer and every armed timer is  *)
(* the one recorded under its key, so the next cancel or reschedule of the *)
(* key cancels it.                                                          *)
C20_NoDanglingTimer ==
  /\ \A t \in timers : t.key \in DOMAIN reminders /\ reminders[t.key] = t.id
  /\ \A t1, t2 \in timers : t1.key = t2.key => t1 = t2
  /\ \A k1, k2 \in DOMAIN reminders : reminders[k1] = reminders[k2] => k1 = k2

(* the reschedule of a trigger cancelled the timer an external call armed  *)
(* while the trigger was suspended                                          *)
C20_Witness ==
  /\ last.op = "resume"
  /\ last.outcome = "returned"
  /\ last.cleared = 1

TimersOfPair(set, alertId, userId) ==
  {t \in set : t.alert.id = alertId /\ t.user = userId}

RecordsOfPair(store, alertId, userId) ==
  {store[k] : k \in {x \in DOMAIN store :
                        store[x].alertId = alertId /\ store[x].userId = userId}}

(* C21: a scheduleReminder call or a preference operation on one (alert,   *)
(* user) pair leaves the timers and the preference records of every other  *)
(* pair as they were, also for ids that contain '_'.                        *)
C21_PairsIndependent ==
  [][ (last'.pair # <<>>) =>
        \A a \in AlertIds \cup PairAlertIds, u \in UserIds \cup PairUserIds :
          (<<a, u>> # last'.pair) =>
            ( /\ TimersOfPair(timers', a, u) = TimersOfPair(timers, a, u)
              /\ RecordsOfPair(preferences', a, u) = RecordsOfPair(preferences, a, u) )
    ]_vars

(* C22: a timer that fires after the expiryTime of its alert dispatches    *)
(* nothing, and no timer stays armed for an alert that is archived, has    *)
(* reminders disabled or is past its expiryTime.                            *)
C22_ExpiredTimerIsSilent ==
  /\ (last.op = "fire" /\ now > last.alert.expiryTime) => last.started = 0
  /\ \A t \in timers :
       ~t.alert.archived /\ t.alert.reminderEnabled /\ now <= t.alert.expiryTime

ScheduledEvents ==
  {i \in 1..Len(emitted) : emitted[i].type = "scheduled"}

(* C23: a scheduleReminder call that passes the eligibility check emits    *)
(* exactly one `scheduled` event with the alertId, the userId and the      *)
(* computed fire time, whether it arms a timer or fires synchronously.      *)
C23_ScheduledEventPerEligibleCall ==
  (Scheduled /\ last.did \in {"armed", "fired"}) =>
    /\ Cardinality(ScheduledEvents) = 1
    /\ \A i \in ScheduledEvents :
         /\ <<emitted[i].alertId, emitted[i].userId>> = last.pair
         /\ emitted[i].scheduledFor = last.at

(* The events of the step that observer "o1" was handed *)
RecordedNext(type) ==
  {i \in 1..Len(emitted') :
     emitted'[i].type = type /\ \E j \in 1..Len(emitted'[i].to) : emitted'[i].to[j] = "o1"}

(* C24: in the stream of events an observer sees for one key, two          *)
(* `triggered` events never occur without a `scheduled` event between     *)
(* them: a `triggered` event is never recorded for a key whose last        *)
(* recorded event is `triggered`.                                          *)
C24_TriggeredSeparatedByScheduled ==
  [][\A i \in RecordedNext("triggered") :
       LET k == Key(emitted'[i].alertId, emitted'[i].userId) IN
       k \in DOMAIN reminderLogs => reminderLogs[k] # "triggered"]_vars

(* now is an instant of the grid createdAt + n * reminderFrequencyMinutes *)
OnGrid(alert) ==
  (now - alert.createdAt) % alert.reminderFrequencyMinutes = 0

(* C25: left to its timers, the scheduler dispatches on the fixed grid: a  *)
(* dispatch that follows an earlier dispatch of the same key (the one the  *)
(* resumed triggerReminder starts) happens at a grid instant.              *)
C25_DispatchOnGrid ==
  (last.op = "resume" /\ last.started > 0) => OnGrid(last.alert)

(* The step was a call of the analytics engine *)
Analysed == last.op \in {"generateAnalytics", "generateDetailedAnalytics"}

SnoozeRecordsOf(alertId) ==
  {k \in DOMAIN preferences :
     preferences[k].alertId = alertId /\ preferences[k].snoozedUntil # Null}

AlertsOfSeverity(severity) ==
  {i \in 1..Len(alerts) : alerts[i].severity = severity}

DeliveredRecords == {i \in 1..Len(deliveryLogs) : deliveryLogs[i].delivered}

ReadRecords == {k \in DOMAIN preferences : preferences[k].read}

(* C26: generateAnalytics returns the number of catalog alerts, of         *)
(* delivery-log records with delivered = true, of preference records with  *)
(* read = true, per alert the number of preference records with a non-null *)
(* snoozedUntil (expired or not; no entry when there is none) and per      *)
(* severity the number of catalog alerts (no entry when there is none).    *)
C26_AnalyticsCounts ==
  Analysed =>
    /\ last.result.totalAlertsCreated = Cardinality(DOMAIN alerts)
    /\ last.result.deliveredCount = Cardinality(DeliveredRecords)
    /\ last.result.readCount = Cardinality(ReadRecords)
    /\ \A a \in {p[1] : p \in AnalyticsPairs} \cup DOMAIN last.result.snoozeCountsPerAlert :
         IF SnoozeRecordsOf(a) = {}
         THEN a \notin DOMAIN last.result.snoozeCountsPerAlert
         ELSE /\ a \in DOMAIN last.result.snoozeCountsPerAlert
              /\ last.result.snoozeCountsPerAlert[a] = Cardinality(SnoozeRecordsOf(a))
    /\ \A v \in {"Info", "Warning", "Critical"} \cup DOMAIN last.result.severityBreakdown :
         IF AlertsOfSeverity(v) = {}
         THEN v \notin DOMAIN last.result.severityBreakdown
         ELSE /\ v \in DOMAIN last.result.severityBreakdown
              /\ last.result.severityBreakdown[v] = Cardinality(AlertsOfSeverity(v))

C26_Witness ==
  /\ last.op = "generateAnalytics"
  /\ Cardinality(SnoozeRecordsOf("a1")) = 2
  /\ \E k \in SnoozeRecordsOf("a1") : preferences[k].snoozedUntil < now
  /\ Cardinality(AlertsOfSeverity("Critical")) = 2
  /\ Cardinality(DeliveredRecords) = 2
  /\ Len(deliveryLogs) = 3
  /\ Cardinality(ReadRecords) = 1

(* C27: alertsActive is the number of catalog alerts that are not archived *)
(* and have startTime <= now < expiryTime.                                 *)
C27_ActiveWindow ==
  Analysed =>
    last.result.alertsActive =
      Cardinality({i \in 1..Len(alerts) :
                     /\ ~alerts[i].archived
                     /\ alerts[i].startTime <= now
                     /\ now < alerts[i].expiryTime})

(* C28 as stated: engagementRate is exactly readCount / deliveredCount *   *)
(* 100 when deliveredCount > 0 and 0 otherwise (the rate is kept in        *)
(* hundredths).                                                             *)
C28_EngagementRateExact ==
  (last.op = "generateDetailedAnalytics") =>
    IF Cardinality(DeliveredRecords) > 0
    THEN last.result.engagementRate * Cardinality(DeliveredRecords)
           = Cardinality(ReadRecords) * 100 * 100
    ELSE last.result.engagementRate = 0

(* C28: engagementRate is readCount / deliveredCount * 100 rounded to two *)
(* decimals, halves up, when deliveredCount > 0 and 0 otherwise.           *)
C28_EngagementRateRounded ==
  (last.op = "generateDetailedAnalytics") =>
    LET d == Cardinality(DeliveredRecords)
        exact == Cardinality(ReadRecords) * 100 * 100
        rate == last.result.engagementRate
    IN IF d > 0
       THEN /\ 2 * rate * d <= 2 * exact + d
            /\ 2 * rate * d > 2 * exact - d
       ELSE rate = 0

C28_Witness ==
  /\ last.op = "generateDetailedAnalytics"
  /\ Cardinality(DeliveredRecords) = 3
  /\ Cardinality(ReadRecords) = 2
  /\ last.result.engagementRate = 6667

(* C29: generateAnalytics and generateDetailedAnalytics leave the delivery *)
(* log, the preference records, the channel registry, the alert catalog    *)
(* and the scheduler's timers unchanged.                                    *)
C29_AnalyticsReadOnly ==
  [][(last'.op \in {"generateAnalytics", "generateDetailedAnalytics"}) =>
       UNCHANGED <<deliveryLogs, preferences, channels, alerts, reminders, timers>>]_vars

C29_Witness ==
  /\ last.op = "generateDetailedAnalytics"
  /\ Len(deliveryLogs) > 0
  /\ DOMAIN preferences # {}
  /\ Len(alerts) > 0
  /\ timers # {}

(* The step was a call of the preference manager that writes *)
PreferenceWrite ==
  last.op \in {"markAsRead", "markAsUnread", "snoozeForDay", "unsnooze", "resetExpiredSnoozes"}

(* C30: a preference operation deletes no record: every key that had a     *)
(* record still has one, for the same alertId and userId, and a key gets a *)
(* record only from markAsRead, markAsUnread or snoozeForDay on that key   *)
(* when it had none.                                                        *)
C30_RecordsNeverDeleted ==
  PreferenceWrite =>
    /\ \A k \in DOMAIN last.before :
         /\ k \in DOMAIN preferences
         /\ preferences[k].alertId = last.before[k].alertId
         /\ preferences[k].userId = last.before[k].userId
    /\ \A k \in DOMAIN preferences \ DOMAIN last.before :
         /\ last.op \in {"markAsRead", "markAsUnread", "snoozeForDay"}
         /\ k = last.key

(* C31: snoozeForDay sets snoozedUntil to the last instant of the current  *)
(* calendar day and lastSnoozedDay to that day; isSnoozedForToday is true  *)
(* exactly for a key with a record whose snoozedUntil is set and strictly  *)
(* after now.                                                               *)
C31_SnoozedUntilEndOfDay ==
  /\ last.op = "snoozeForDay" =>
       LET p == preferences[last.key] IN
       /\ p.snoozedUntil >= now
       /\ (p.snoozedUntil + 1) % DayLen = 0
       /\ p.snoozedUntil - now < DayLen
       /\ p.lastSnoozedDay * DayLen <= now
       /\ now < (p.lastSnoozedDay + 1) * DayLen
  /\ \A a \in AlertIds, u \in UserIds :
       IsSnoozedForToday(a, u) <=>
         /\ Key(a, u) \in DOMAIN preferences
         /\ preferences[Key(a, u)].snoozedUntil # Null
         /\ now < preferences[Key(a, u)].snoozedUntil

(* the clock has reached the snoozedUntil of a record snoozed today, while *)
(* another snooze is still running                                          *)
C31_Witness ==
  /\ \E a \in AlertIds, u \in UserIds :
       /\ Key(a, u) \in DOMAIN preferences
       /\ preferences[Key(a, u)].snoozedUntil = now
       /\ preferences[Key(a, u)].lastSnoozedDay = Today(now)
       /\ ~IsSnoozedForToday(a, u)
  /\ last.op = "snoozeForDay"
  /\ \E a \in AlertIds, u \in UserIds :
       /\ Key(a, u) \notin DOMAIN preferences
       /\ ~IsSnoozedForToday(a, u)

(* C32: an eligible scheduleReminder call with no preference starts the    *)
(* dispatch before it returns and arms no timer; a call whose computed     *)
(* fire time is in the future arms a timer for that time and starts no     *)
(* dispatch.                                                                *)
C32_ImmediateOrArmed ==
  (Scheduled /\ ShouldScheduleReminder(last.alert, last.pref)) =>
    /\ last.pref = NoPref =>
         /\ last.at = now
         /\ last.started = 1
         /\ \E t \in BagToSet(tasks) :
              t.caller = "trigger" /\ t.alert = last.alert /\ Key(t.alert.id, t.user) = last.key
         /\ TimersOf(last.key) = {}
    /\ last.at > now =>
         /\ last.started = 0
         /\ Cardinality(TimersOf(last.key)) = 1
         /\ \A t \in TimersOf(last.key) : t.fireAt = last.at
    /\ last.at > now \/ last.pref = NoPref

(* a call without a preference fired while another key has a timer armed *)
C32_Witness ==
  /\ Scheduled
  /\ ShouldScheduleReminder(last.alert, last.pref)
  /\ last.pref = NoPref
  /\ last.started = 1
  /\ TimersOf(last.key) = {}
  /\ timers # {}

TriggeredEvents ==
  {i \in 1..Len(emitted) : emitted[i].type = "triggered"}

(* C33: a dispatch that returns emits exactly one `triggered` event with   *)
(* the dispatcher's overall success, and the key is rescheduled whatever   *)
(* that success is: a still-eligible key has its next dispatch started by  *)
(* the same resumption.                                                     *)
C33_FailedDispatchKeepsCycle ==
  (last.op = "resume" /\ last.outcome = "returned") =>
    /\ Cardinality(TriggeredEvents) = 1
    /\ \A i \in 1..Len(emitted) : emitted[i].type # "error"
    /\ \A i \in TriggeredEvents :
         /\ emitted[i].success = last.result.success
         /\ Key(emitted[i].alertId, emitted[i].userId) = last.key
    /\ IF ShouldScheduleReminder(last.alert, NoPref)
       THEN /\ last.started = 1
            /\ \E t \in BagToSet(tasks) :
                 t.caller = "trigger" /\ Key(t.alert.id, t.user) = last.key
       ELSE /\ last.started = 0
            /\ TimersOf(last.key) = {}

(* a dispatch that returned success = false and whose key went on to its   *)
(* next dispatch                                                            *)
C33_Witness ==
  /\ last.op = "resume"
  /\ last.outcome = "returned"
  /\ ~last.result.success
  /\ \E i \in TriggeredEvents : ~emitted[i].success
  /\ last.started = 1

(* The attempts a dispatch has made so far on a channel type *)
AttemptsOn(t, channelType) ==
  {i \in 1..Len(t.results) : t.results[i].channel = channelType}

(* C34: channelPerformance accounts for every attempt: for each channel    *)
(* type sent = delivered + failed, sent is at least the number of attempts *)
(* any one dispatch has made on it, and failed at least the number of      *)
(* those attempts that did not succeed (no entry counts as zero).           *)
C34_ChannelPerformanceCountsAttempts ==
  (last.op = "generateDetailedAnalytics") =>
    \A c \in ChannelTypes :
      LET perf == last.result.channelPerformance
          stats == IF c \in DOMAIN perf
                   THEN perf[c]
                   ELSE [sent |-> 0, delivered |-> 0, failed |-> 0]
      IN /\ stats.sent = stats.delivered + stats.failed
         /\ \A t \in BagToSet(tasks) :
              /\ stats.sent >= Cardinality(AttemptsOn(t, c))
              /\ stats.failed >=
                   Cardinality({i \in AttemptsOn(t, c) : ~t.results[i].success})

(* The triggerReminder calls of a key that are suspended at their await on *)
(* the dispatcher or about to resume from it, as a bag                      *)
TriggersInFlight(key) ==
  LET mine == {t \in BagToSet(tasks) :
                 t.caller = "trigger" /\ Key(t.alert.id, t.user) = key}
  IN BagCardinality([t \in mine |-> CopiesIn(t, tasks)])

(* C35: every key has at most one reminder cycle in progress, counting an  *)
(* armed timer and a triggerReminder in flight each as one.                 *)
C35_OneCyclePerKey ==
  \A k \in Keys : Cardinality(TimersOf(k)) + TriggersInFlight(k) <= 1

(* C36: getActiveReminders returns exactly the keys that have an armed     *)
(* timer; a key whose timer has fired is not among them.                    *)
C36_ActiveIsArmed ==
  GetActiveReminders = {t.key : t \in timers}

(* C37: once a user has snoozed an alert the scheduler starts no dispatch  *)
(* for the pair before snoozedUntil, also when a trigger of the key was in *)
(* flight at the snooze and reschedules afterwards.                         *)
C37_NoDispatchWhileSnoozed ==
  (last.op \in {"scheduleReminder", "fire", "resume"} /\ last.started > 0) =>
    ~StoredSnoozeActive(last.key)

(* C38: in every record of a store that started empty snoozedUntil is null *)
(* exactly when lastSnoozedDay is null.                                     *)
C38_SnoozeFieldsTogether ==
  \A k \in DOMAIN preferences :
    (preferences[k].snoozedUntil = Null) <=> (preferences[k].lastSnoozedDay = Null)

(* the sweep has cleared the snooze of one record, another record is still *)
(* snoozed and was marked read since                                        *)
C38_Witness ==
  /\ last.op = "resetExpiredSnoozes"
  /\ \E k \in DOMAIN preferences :
       /\ last.before[k].snoozedUntil # Null
       /\ preferences[k].snoozedUntil = Null
       /\ preferences[k].lastSnoozedDay = Null
  /\ \E k \in DOMAIN preferences :
       /\ preferences[k].read
       /\ preferences[k].snoozedUntil # Null
       /\ preferences[k].lastSnoozedDay # Null

(* C39: no key is at once snoozed for today (isSnoozedForToday) and due    *)
(* for a snooze reset (shouldResetSnooze).                                  *)
C39_SnoozePredicatesAgree ==
  \A a \in AlertIds, u \in UserIds :
    ~(IsSnoozedForToday(a, u) /\ ShouldResetSnooze(a, u))

(* one record snoozed on an earlier day is due for a reset and no longer   *)
(* snoozed, another is snoozed today                                        *)
C39_Witness ==
  /\ \E a \in AlertIds, u \in UserIds :
       /\ ShouldResetSnooze(a, u)
       /\ ~IsSnoozedForToday(a, u)
       /\ GetPreference(a, u).snoozedUntil # Null
  /\ \E a \in AlertIds, u \in UserIds :
       /\ IsSnoozedForToday(a, u)
       /\ ~ShouldResetSnooze(a, u)

====
